---- MODULE Spec2Model ----
(***************************************************************************)
(* A model of the SelectionElement web component                           *)
(* (src/src/SelectionElement.js): a host element whose children are        *)
(* selectable.  A child is selected when it carries the `data-selected`    *)
(* attribute.  The state is the DOM the component reads and writes (the    *)
(* markers, the `multiple` attribute, the listeners it has attached) and   *)
(* the events it has dispatched.                                           *)
(***************************************************************************)
EXTENDS Integers, Sequences, FiniteSets, TLC

\* ------------------------------------------------------------------ bounds
MaxChildren == 3      \* the control has 0..MaxChildren children
MaxListeners == 2     \* focusin is not delivered once this many keydown listeners are attached
MaxItemSize == 2      \* children are laid out as a column of items of height 1..MaxItemSize
ViewSize == 2         \* height of the control's visible region

\* The DOM under the control: every child heads a chain of descendants, one
\* element at each of these depths (1 is the child itself).
Depths == {1, 2, 3}

VARIABLES
    length,                  \* this.children.length
    marked,                  \* the elements that carry the data-selected attribute
    hasMultiple,             \* the `multiple` attribute is present on the control
    allowMultipeSelections,  \* the private field #allowMultipeSelections
    connected,               \* focusin / pointerdown listeners are attached to the control
    focused,                 \* the control (or a descendant) holds focus
    keydownListeners,        \* keyHandler closures attached to the document
    focusoutListeners,       \* pending once-only focusout listeners on the control
    containerBounds,         \* this.getBoundingClientRect()
    childBounds,             \* children[i].getBoundingClientRect(), i in 0..length-1
    log,                     \* what the last operation dispatched / requested, in order
    defaultPrevented,        \* preventDefault() was called on the last keydown event
    last,                    \* the last operation and its inputs
    before                   \* the state the last operation started from

vars == << length, marked, hasMultiple, allowMultipeSelections, connected, focused,
           keydownListeners, focusoutListeners, containerBounds, childBounds,
           log, defaultPrevented, last, before >>

\* ---------------------------------------------------------------- elements
\* An element is named by the child subtree it lies in and its depth below
\* the control: depth 1 is a direct child, depth 0 the control itself.
Element(i, d) == [idx |-> i, depth |-> d]
Host == Element(-1, 0)
Null == Element(-1, -1)
Foreign == Element(-2, -1)      \* an element outside the control
Child(i) == Element(i, 1)

Indices == 0 .. (length - 1)
Descendants == { Element(i, d) : i \in Indices, d \in Depths }

parentElement(e) == IF e.depth = 1 THEN Host ELSE Element(e.idx, e.depth - 1)

\* ---------------------------------------------------------------- DOMRect
DOMRect(x, y, w, h) == [x |-> x, y |-> y, width |-> w, height |-> h]
Min(a, b) == IF a <= b THEN a ELSE b
Max(a, b) == IF a >= b THEN a ELSE b
Left(r) == Min(r.x, r.x + r.width)
Right(r) == Max(r.x, r.x + r.width)
Top(r) == Min(r.y, r.y + r.height)
Bottom(r) == Max(r.y, r.y + r.height)

\* ------------------------------------------------------- selection store
isSelected(m, element) == element \in m

addToSelection(m, element) == m \cup {element}

removeFromSelection(m, element) == m \ {element}

RECURSIVE FilterChildren(_, _)
FilterChildren(m, index) ==
    IF index >= length THEN << >>
    ELSE (IF isSelected(m, Child(index)) THEN << Child(index) >> ELSE << >>)
             \o FilterChildren(m, index + 1)

selectedChildren(m) == FilterChildren(m, 0)

RECURSIVE RemoveEach(_, _, _)
RemoveEach(m, elements, k) ==
    IF k > Len(elements) THEN m
    ELSE RemoveEach(removeFromSelection(m, elements[k]), elements, k + 1)

clearSelection(m) == RemoveEach(m, selectedChildren(m), 1)

RECURSIVE FirstSelectedFrom(_, _)
FirstSelectedFrom(m, index) ==
    IF index >= length THEN -1
    ELSE IF isSelected(m, Child(index)) THEN index
    ELSE FirstSelectedFrom(m, index + 1)

\* Mutant: the getter reports the last selected child instead of the first.
selectedIndex_Last(m) ==
    LET S == { i \in Indices : isSelected(m, Child(i)) }
    IN  IF S = {} THEN -1 ELSE CHOOSE x \in S : \A y \in S : x >= y

selectedIndex(m) == FirstSelectedFrom(m, 0)

\* Mutant: the setter selects the child without clearing the selection first.
setSelectedIndex_NoClear(m, value) ==
    IF value >= 0 /\ value < length THEN addToSelection(m, Child(value)) ELSE m

\* Mutant: the setter returns early, before clearing, on an index out of range.
setSelectedIndex_RangeFirst(m, value) ==
    IF value >= 0 /\ value < length
    THEN addToSelection(clearSelection(m), Child(value))
    ELSE m

setSelectedIndex(m, value) ==
    LET cleared == clearSelection(m)
    IN  IF value >= 0 /\ value < length
        THEN addToSelection(cleared, Child(value))
        ELSE cleared

selectedChild(m) ==
    IF selectedIndex(m) > -1 THEN Child(selectedIndex(m)) ELSE Null

RECURSIVE FindChild(_, _, _)
FindChild(m, element, index) ==
    IF index >= length THEN m
    ELSE IF Child(index) = element THEN addToSelection(m, element)
    ELSE FindChild(m, element, index + 1)

\* Mutant: the setter returns early, before clearing, when the element is not
\* a child.
setSelectedChild_ChildOnly(m, element) ==
    IF element \in { Child(i) : i \in Indices }
    THEN addToSelection(clearSelection(m), element)
    ELSE m

setSelectedChild(m, element) == FindChild(clearSelection(m), element, 0)

\* The indices of the selected children: what an observer of the control sees.
Selection(m) == { i \in Indices : isSelected(m, Child(i)) }

\* Mutant: removing `multiple` switches the mode and leaves the markers alone.
attributeChangedCallback_NoFixup(m, removed) ==
    [marked |-> m, allowMultipeSelections |-> ~removed]

\* ------------------------------------------------------ attribute callback
\* attributeChangedCallback('multiple', oldValue, newValue); removed is
\* newValue === null.  The result is the markers and the mode flag.
attributeChangedCallback(m, removed) ==
    LET index == selectedIndex(m)
        fixed == IF removed /\ index > -1
                 THEN addToSelection(clearSelection(m), Child(index))
                 ELSE m
    IN  [marked |-> fixed, allowMultipeSelections |-> ~removed]

\* ------------------------------------------------------------ page scans
\* Mutant: the containment test excludes the edges of the outer rectangle.
rectContains_Strict(a, b) ==
    /\ Left(b) > Left(a)
    /\ Right(b) < Right(a)
    /\ Top(b) > Top(a)
    /\ Bottom(b) < Bottom(a)

rectContains(a, b) ==
    /\ Left(b) >= Left(a)
    /\ Right(b) <= Right(a)
    /\ Top(b) >= Top(a)
    /\ Bottom(b) <= Bottom(a)

RECURSIVE NextScan(_, _)
NextScan(pageBounds, c) ==
    IF c >= length THEN length - 1
    ELSE IF ~rectContains(pageBounds, childBounds[c]) THEN c
    ELSE NextScan(pageBounds, c + 1)

\* Mutant: without a selection the forward scan starts at the first child
\* instead of giving up.
getNextNonvisibleChildIndex_NoGuard(m) ==
    LET index == selectedIndex(m)
    IN  IF index = -1 THEN NextScan(containerBounds, 0)
        ELSE LET selectionBounds == childBounds[index]
                 pageBounds ==
                     [containerBounds EXCEPT
                        !.y = @ + (Top(selectionBounds) - Top(containerBounds)),
                        !.x = @ + (Left(selectionBounds) - Left(containerBounds))]
             IN  NextScan(pageBounds, index + 1)

getNextNonvisibleChildIndex(m) ==
    LET index == selectedIndex(m)
    IN  IF index = -1 THEN -1
        ELSE LET selectionBounds == childBounds[index]
                 pageBounds ==
                     [containerBounds EXCEPT
                        !.y = @ + (Top(selectionBounds) - Top(containerBounds)),
                        !.x = @ + (Left(selectionBounds) - Left(containerBounds))]
             IN  NextScan(pageBounds, index + 1)

RECURSIVE PreviousScan(_, _)
PreviousScan(pageBounds, c) ==
    IF c < 0 THEN 0
    ELSE IF ~rectContains(pageBounds, childBounds[c]) THEN c
    ELSE PreviousScan(pageBounds, c - 1)

\* Mutant: the backward scan uses the page window of the forward scan.
getPreviousNonvisibleChildIndex_ForwardWindow(m) ==
    LET index == selectedIndex(m)
    IN  IF index = -1 THEN -1
        ELSE LET selectionBounds == childBounds[index]
                 pageBounds ==
                     [containerBounds EXCEPT
                        !.y = @ + (Top(selectionBounds) - Top(containerBounds)),
                        !.x = @ + (Left(selectionBounds) - Left(containerBounds))]
             IN  PreviousScan(pageBounds, index - 1)

getPreviousNonvisibleChildIndex(m) ==
    LET index == selectedIndex(m)
    IN  IF index = -1 THEN -1
        ELSE LET selectionBounds == childBounds[index]
                 pageBounds ==
                     [containerBounds EXCEPT
                        !.y = @ - (Bottom(containerBounds) - Bottom(selectionBounds)),
                        !.x = @ - (Right(containerBounds) - Right(selectionBounds))]
             IN  PreviousScan(pageBounds, index - 1)

\* ------------------------------------------------------------- handlers
\* What a handler works on: the markers, what has been dispatched so far
\* during the current event, and whether preventDefault() was called on it.
Dom(m, l, p) == [marked |-> m, log |-> l, prevented |-> p]

\* A log entry: the kind of thing that happened and the selection an
\* observer reading the control at that moment sees.
Entry(type, m) == [type |-> type, seen |-> Selection(m)]

scrollSelectionIntoView(st) ==
    IF selectedChild(st.marked) = Null THEN st
    ELSE [st EXCEPT !.log = Append(@, [type |-> "scroll",
                                        seen |-> {selectedIndex(st.marked)}])]

notifySelectionChange(st) ==
    [st EXCEPT !.log = @ \o << Entry("change", st.marked), Entry("input", st.marked) >>]

Keys == {"Home", "End", "PageUp", "PageDown",
         "ArrowRight", "ArrowDown", "ArrowLeft", "ArrowUp", "Enter"}

newSelectionIndex(m, key) ==
    LET current == selectedIndex(m)
    IN  CASE key = "Home" -> 0
          [] key = "End" -> length - 1
          [] key = "PageUp" ->
                LET index == getPreviousNonvisibleChildIndex(m)
                IN  IF index > -1 THEN index ELSE current
          [] key = "PageDown" ->
                LET index == getNextNonvisibleChildIndex(m)
                IN  IF index > -1 THEN index ELSE current
          [] key \in {"ArrowRight", "ArrowDown"} ->
                IF current < length - 1 THEN current + 1 ELSE current
          [] key \in {"ArrowLeft", "ArrowUp"} ->
                IF current > 0 THEN current - 1 ELSE current
          [] OTHER -> current

\* Mutant: a navigation key is claimed only when it changes the selection.
keyHandler_ClaimOnChange(st, key) ==
    IF key \notin {"Home", "End", "PageUp", "PageDown",
                   "ArrowRight", "ArrowDown", "ArrowLeft", "ArrowUp"}
    THEN st
    ELSE LET claimed == [st EXCEPT !.prevented = TRUE]
             target == newSelectionIndex(st.marked, key)
         IN  IF target # selectedIndex(st.marked)
             THEN notifySelectionChange(scrollSelectionIntoView(
                      [claimed EXCEPT !.marked = setSelectedIndex(@, target)]))
             ELSE st

\* Mutant: the events are dispatched before the selection is committed.
keyHandler_NotifyFirst(st, key) ==
    IF key \notin {"Home", "End", "PageUp", "PageDown",
                   "ArrowRight", "ArrowDown", "ArrowLeft", "ArrowUp"}
    THEN st
    ELSE LET claimed == [st EXCEPT !.prevented = TRUE]
             target == newSelectionIndex(st.marked, key)
         IN  IF target # selectedIndex(st.marked)
             THEN scrollSelectionIntoView(
                      [notifySelectionChange(claimed)
                          EXCEPT !.marked = setSelectedIndex(@, target)])
             ELSE claimed

keyHandler(st, key) ==
    IF key \notin {"Home", "End", "PageUp", "PageDown",
                   "ArrowRight", "ArrowDown", "ArrowLeft", "ArrowUp"}
    THEN st
    ELSE LET claimed == [st EXCEPT !.prevented = TRUE]
             target == newSelectionIndex(st.marked, key)
         IN  IF target # selectedIndex(st.marked)
             THEN notifySelectionChange(scrollSelectionIntoView(
                      [claimed EXCEPT !.marked = setSelectedIndex(@, target)]))
             ELSE claimed

\* The document dispatches one keydown event to every keyHandler attached to
\* it, one after the other.
RECURSIVE DispatchKeydown(_, _, _)
DispatchKeydown(st, key, listeners) ==
    IF listeners = 0 THEN st
    ELSE DispatchKeydown(keyHandler(st, key), key, listeners - 1)

\* Mutant: a press that another handler has already claimed is handled.
handlePointerDown_IgnoresPrevented(st, target, shiftKey, prevented) ==
    IF target = Host THEN st
    ELSE LET resolved == IF parentElement(target) # Host
                         THEN parentElement(target) ELSE target
         IN  IF allowMultipeSelections /\ shiftKey
             THEN IF isSelected(st.marked, resolved)
                  THEN notifySelectionChange(
                         [st EXCEPT !.marked = removeFromSelection(@, resolved)])
                  ELSE notifySelectionChange(
                         [st EXCEPT !.marked = addToSelection(@, resolved)])
             ELSE IF isSelected(st.marked, resolved) THEN st
             ELSE notifySelectionChange(
                    [st EXCEPT !.marked = addToSelection(clearSelection(@), resolved)])

\* Mutant: an exclusive press on a selected child deselects it.
handlePointerDown_Deselects(st, target, shiftKey, prevented) ==
    IF target = Host THEN st
    ELSE LET resolved == IF parentElement(target) # Host
                         THEN parentElement(target) ELSE target
         IN  IF prevented THEN st
             ELSE IF allowMultipeSelections /\ shiftKey
             THEN IF isSelected(st.marked, resolved)
                  THEN notifySelectionChange(
                         [st EXCEPT !.marked = removeFromSelection(@, resolved)])
                  ELSE notifySelectionChange(
                         [st EXCEPT !.marked = addToSelection(@, resolved)])
             ELSE IF isSelected(st.marked, resolved)
             THEN notifySelectionChange(
                    [st EXCEPT !.marked = removeFromSelection(@, resolved)])
             ELSE notifySelectionChange(
                    [st EXCEPT !.marked = addToSelection(clearSelection(@), resolved)])

\* Mutant: an additive press never deselects.
handlePointerDown_AddOnly(st, target, shiftKey, prevented) ==
    IF target = Host THEN st
    ELSE LET resolved == IF parentElement(target) # Host
                         THEN parentElement(target) ELSE target
         IN  IF prevented THEN st
             ELSE IF allowMultipeSelections /\ shiftKey
             THEN notifySelectionChange(
                    [st EXCEPT !.marked = addToSelection(@, resolved)])
             ELSE IF isSelected(st.marked, resolved) THEN st
             ELSE notifySelectionChange(
                    [st EXCEPT !.marked = addToSelection(clearSelection(@), resolved)])

handlePointerDown(st, target, shiftKey, prevented) ==
    IF target = Host THEN st
    ELSE LET resolved == IF parentElement(target) # Host
                         THEN parentElement(target) ELSE target
         IN  IF prevented THEN st
             ELSE IF allowMultipeSelections /\ shiftKey
             THEN IF isSelected(st.marked, resolved)
                  THEN notifySelectionChange(
                         [st EXCEPT !.marked = removeFromSelection(@, resolved)])
                  ELSE notifySelectionChange(
                         [st EXCEPT !.marked = addToSelection(@, resolved)])
             ELSE IF isSelected(st.marked, resolved) THEN st
             ELSE notifySelectionChange(
                    [st EXCEPT !.marked = addToSelection(clearSelection(@), resolved)])

\* ------------------------------------------------------------- layout
\* The children as a column of equally high items that starts at the top of
\* the control's visible region.
ColumnLayout(n, size) == [i \in 0 .. (n - 1) |-> DOMRect(0, i * size, 1, size)]

\* ------------------------------------------------------------ bookkeeping
Op(name, key, value, target, shiftKey, prevented) ==
    [op |-> name, key |-> key, value |-> value, target |-> target,
     shiftKey |-> shiftKey, prevented |-> prevented]

Snapshot ==
    [marked |-> marked, allowMultipeSelections |-> allowMultipeSelections,
     keydownListeners |-> keydownListeners, focused |-> focused]

\* No operation is running: the control runs one operation at a time, each to
\* completion, from the idle event loop.
NoOp == Op("idle", "", -1, Null, FALSE, FALSE)
Idle == last = NoOp

SameListeners == UNCHANGED << connected, focused, keydownListeners, focusoutListeners >>
SameLayout == UNCHANGED << length, containerBounds, childBounds >>
SameMode == UNCHANGED << hasMultiple, allowMultipeSelections >>

\* ------------------------------------------------------------------ Init
\* The control right after construction: not connected, no `multiple`
\* attribute seen yet; its children are those of the markup, with whatever
\* markers the markup put on them.
Init ==
    /\ length \in 0 .. MaxChildren
    /\ marked \in SUBSET { Child(i) : i \in Indices }
    /\ hasMultiple = FALSE
    /\ allowMultipeSelections = FALSE
    /\ connected = FALSE
    /\ focused = FALSE
    /\ keydownListeners = 0
    /\ focusoutListeners = 0
    /\ containerBounds = DOMRect(0, 0, 1, ViewSize)
    /\ \E size \in 1 .. MaxItemSize : childBounds = ColumnLayout(length, size)
    /\ log = << >>
    /\ defaultPrevented = FALSE
    /\ last = NoOp
    /\ before = Snapshot

\* --------------------------------------------------------------- actions
\* Mutant: the selectedIndex setter notifies, as the key handler does.
SetSelectedIndex_Notifies(value) ==
    LET result == notifySelectionChange(Dom(setSelectedIndex(marked, value), << >>, FALSE))
    IN  /\ Idle
        /\ marked' = result.marked
        /\ log' = result.log
        /\ defaultPrevented' = FALSE
        /\ last' = Op("selectedIndex", "", value, Null, FALSE, FALSE)
        /\ before' = Snapshot
        /\ SameListeners /\ SameLayout /\ SameMode

\* element.selectedIndex = value
SetSelectedIndex(value) ==
    /\ Idle
    /\ marked' = setSelectedIndex(marked, value)
    /\ log' = << >>
    /\ defaultPrevented' = FALSE
    /\ last' = Op("selectedIndex", "", value, Null, FALSE, FALSE)
    /\ before' = Snapshot
    /\ SameListeners /\ SameLayout /\ SameMode

\* element.selectedChild = target
SetSelectedChild(target) ==
    /\ Idle
    /\ marked' = setSelectedChild(marked, target)
    /\ log' = << >>
    /\ defaultPrevented' = FALSE
    /\ last' = Op("selectedChild", "", -1, target, FALSE, FALSE)
    /\ before' = Snapshot
    /\ SameListeners /\ SameLayout /\ SameMode

\* element.setAttribute('multiple', '')
AddMultiple ==
    LET result == attributeChangedCallback(marked, FALSE)
    IN  /\ Idle
        /\ hasMultiple' = TRUE
        /\ marked' = result.marked
        /\ allowMultipeSelections' = result.allowMultipeSelections
        /\ log' = << >>
        /\ defaultPrevented' = FALSE
        /\ last' = Op("addMultiple", "", -1, Null, FALSE, FALSE)
        /\ before' = Snapshot
        /\ SameListeners /\ SameLayout

\* element.removeAttribute('multiple'): the callback runs when the attribute
\* was there.
RemoveMultiple ==
    LET result == attributeChangedCallback(marked, TRUE)
    IN  /\ Idle
        /\ hasMultiple
        /\ hasMultiple' = FALSE
        /\ marked' = result.marked
        /\ allowMultipeSelections' = result.allowMultipeSelections
        /\ log' = << >>
        /\ defaultPrevented' = FALSE
        /\ last' = Op("removeMultiple", "", -1, Null, FALSE, FALSE)
        /\ before' = Snapshot
        /\ SameListeners /\ SameLayout

\* connectedCallback
Connect ==
    /\ Idle
    /\ ~connected
    /\ connected' = TRUE
    /\ log' = << >>
    /\ defaultPrevented' = FALSE
    /\ last' = Op("connect", "", -1, Null, FALSE, FALSE)
    /\ before' = Snapshot
    /\ UNCHANGED << marked, focused, keydownListeners, focusoutListeners >>
    /\ SameLayout /\ SameMode

\* The once-only focusout listeners run: each detaches its keyHandler.
ReleasedListeners == keydownListeners - focusoutListeners

\* disconnectedCallback.  An element that is removed while it holds focus
\* loses it; whether a focusout event is delivered to it then depends on the
\* browser.
Disconnect ==
    /\ Idle
    /\ connected
    /\ connected' = FALSE
    /\ focused' = FALSE
    /\ \/ UNCHANGED << keydownListeners, focusoutListeners >>
       \/ /\ focused
          /\ keydownListeners' = ReleasedListeners
          /\ focusoutListeners' = 0
    /\ log' = << >>
    /\ defaultPrevented' = FALSE
    /\ last' = Op("disconnect", "", -1, Null, FALSE, FALSE)
    /\ before' = Snapshot
    /\ UNCHANGED marked
    /\ SameLayout /\ SameMode

\* #handleFocusIn: focus enters the connected control.
FocusIn ==
    /\ Idle
    /\ connected
    /\ ~focused
    /\ keydownListeners < MaxListeners
    /\ focused' = TRUE
    /\ keydownListeners' = keydownListeners + 1
    /\ focusoutListeners' = focusoutListeners + 1
    /\ log' = << >>
    /\ defaultPrevented' = FALSE
    /\ last' = Op("focusin", "", -1, Null, FALSE, FALSE)
    /\ before' = Snapshot
    /\ UNCHANGED << marked, connected >>
    /\ SameLayout /\ SameMode

\* Focus leaves the control: the focusout listeners registered by
\* #handleFocusIn run.
FocusOut ==
    /\ Idle
    /\ focused
    /\ focused' = FALSE
    /\ keydownListeners' = ReleasedListeners
    /\ focusoutListeners' = 0
    /\ log' = << >>
    /\ defaultPrevented' = FALSE
    /\ last' = Op("focusout", "", -1, Null, FALSE, FALSE)
    /\ before' = Snapshot
    /\ UNCHANGED << marked, connected >>
    /\ SameLayout /\ SameMode

\* A key is pressed: the document dispatches keydown to the attached
\* keyHandlers.
KeyDown(key) ==
    LET result == DispatchKeydown(Dom(marked, << >>, FALSE), key, keydownListeners)
    IN  /\ Idle
        /\ keydownListeners > 0
        /\ marked' = result.marked
        /\ log' = result.log
        /\ defaultPrevented' = result.prevented
        /\ last' = Op("keydown", key, -1, Null, FALSE, FALSE)
        /\ before' = Snapshot
        /\ SameListeners /\ SameLayout /\ SameMode

\* A pointer is pressed on the connected control or inside it.
PointerDown(target, shiftKey, prevented) ==
    LET result == handlePointerDown(Dom(marked, << >>, FALSE), target, shiftKey, prevented)
    IN  /\ Idle
        /\ connected
        /\ marked' = result.marked
        /\ log' = result.log
        /\ defaultPrevented' = FALSE
        /\ last' = Op("pointerdown", "", -1, target, shiftKey, prevented)
        /\ before' = Snapshot
        /\ SameListeners /\ SameLayout /\ SameMode

\* The operation has run to completion and its task ends: the event, what was
\* dispatched during it and the record of it are gone; the DOM stays as it is.
EndTask ==
    /\ ~Idle
    /\ last' = NoOp
    /\ before' = Snapshot
    /\ log' = << >>
    /\ defaultPrevented' = FALSE
    /\ UNCHANGED marked
    /\ SameListeners /\ SameLayout /\ SameMode

IndexValues == -2 .. (length + 2)

Next ==
    \/ \E value \in IndexValues : SetSelectedIndex(value)
    \/ \E target \in Descendants \cup {Host, Null, Foreign} : SetSelectedChild(target)
    \/ AddMultiple
    \/ RemoveMultiple
    \/ Connect
    \/ Disconnect
    \/ FocusIn
    \/ FocusOut
    \/ \E key \in Keys : KeyDown(key)
    \/ \E target \in Descendants \cup {Host}, shiftKey \in BOOLEAN, prevented \in BOOLEAN :
          PointerDown(target, shiftKey, prevented)
    \/ EndTask

Spec == Init /\ [][Next]_vars

\* ------------------------------------------- the page scans on free layouts
\* The page scans read nothing but the rectangles and the selected index, so
\* they are exercised on a focused control (one keyHandler attached) whose
\* children lie anywhere: each child's rectangle combines a horizontal and a
\* vertical span (on the diagonal, or in the first column or row), the
\* control's rectangle is one of two squares.  The unit is ten pixels.
HSpans == { << 1, 2 >>, << 3, 4 >>, << 15, 16 >> }
VSpans == { << 1, 2 >>, << 3, 4 >>, << 10, 11 >>, << 15, 16 >> }
Box(h, v) == DOMRect(h[1], v[1], h[2] - h[1], v[2] - v[1])
Boxes ==
    { Box(h, v) : << h, v >> \in
        { p \in HSpans \X VSpans : p[1] = p[2] \/ << 1, 2 >> \in { p[1], p[2] } } }
Views == { DOMRect(0, 0, 10, 10), DOMRect(1, 1, 10, 10) }

ScanInit ==
    /\ length \in 0 .. MaxChildren
    /\ marked \in { {} } \cup { { Child(i) } : i \in Indices }
    /\ hasMultiple = FALSE
    /\ allowMultipeSelections = FALSE
    /\ connected = TRUE
    /\ focused = TRUE
    /\ keydownListeners = 1
    /\ focusoutListeners = 1
    /\ containerBounds \in Views
    /\ childBounds \in [Indices -> Boxes]
    /\ log = << >>
    /\ defaultPrevented = FALSE
    /\ last = NoOp
    /\ before = Snapshot

ScanNext ==
    \/ KeyDown("PageDown")
    \/ KeyDown("PageUp")
    \/ EndTask

ScanSpec == ScanInit /\ [][ScanNext]_vars

\* ======================================================= the claims
Selected == Selection(marked)
SelectedBefore == Selection(before.marked)
MinOf(S) == CHOOSE x \in S : \A y \in S : x <= y

IsEvent(entry) == entry.type \in {"change", "input"}
\* The change and input events the last operation dispatched, in order.
Dispatched == [k \in DOMAIN SelectSeq(log, IsEvent) |-> SelectSeq(log, IsEvent)[k].type]
changeCount == Cardinality({k \in DOMAIN log : log[k].type = "change"})
inputCount == Cardinality({k \in DOMAIN log : log[k].type = "input"})

\* C1: while multi-selection mode is disabled (no `multiple` attribute) at
\* most one child carries the selection marker, in every reachable state,
\* the initial selection being the markers the markup put on the children.
C1_SingleSelection ==
    (~hasMultiple /\ ~allowMultipeSelections) => Cardinality(Selected) <= 1

\* C2: removing `multiple` while a set S of more than one child is selected
\* leaves exactly {min(S)} selected; with at most one selected child the
\* selection is unchanged; the mode flag is false afterwards and the
\* transition dispatches no change or input event.
C2_CollapseToLowest ==
    last.op = "removeMultiple" =>
        /\ ~allowMultipeSelections
        /\ Dispatched = << >>
        /\ IF Cardinality(SelectedBefore) > 1
           THEN Selected = {MinOf(SelectedBefore)}
           ELSE Selected = SelectedBefore

C2_Witness ==
    /\ last.op = "removeMultiple"
    /\ Cardinality(SelectedBefore) > 1
    /\ 0 \notin SelectedBefore
    /\ Selected = {1}

\* C3: the selectedIndex getter returns the lowest index among the marked
\* children, or -1 if there is none; it lies in [-1, length); selectedChild is
\* the child at that index (null when it is -1); selectedChildren lists
\* exactly the marked children, in ascending index order.
C3_Getters ==
    /\ selectedIndex(marked) = (IF Selected = {} THEN -1 ELSE MinOf(Selected))
    /\ selectedIndex(marked) \in -1 .. (length - 1)
    /\ selectedChild(marked) =
          (IF Selected = {} THEN Null ELSE Child(MinOf(Selected)))
    /\ LET list == selectedChildren(marked)
       IN  /\ { list[k] : k \in DOMAIN list } = { Child(i) : i \in Selected }
           /\ \A k \in 1 .. (Len(list) - 1) : list[k].idx < list[k + 1].idx

C3_Witness ==
    /\ last.op = "pointerdown"
    /\ Selected = {1, 2}
    /\ selectedIndex(marked) = 1
    /\ Len(selectedChildren(marked)) = 2

\* C4: for every prior selection and every i with 0 <= i < length, after
\* selectedIndex = i the selection is exactly {i} and selectedIndex reads i;
\* repeating the assignment changes nothing.
C4_SetGetRoundTrip ==
    (last.op = "selectedIndex" /\ last.value >= 0 /\ last.value < length) =>
        /\ Selected = {last.value}
        /\ selectedIndex(marked) = last.value
        /\ setSelectedIndex(marked, last.value) = marked

C4_Witness ==
    /\ last.op = "selectedIndex"
    /\ before.allowMultipeSelections
    /\ Cardinality(SelectedBefore) > 1
    /\ last.value \in Indices
    /\ last.value \notin SelectedBefore
    /\ Selected = {last.value}

\* C5: for every v with v < 0 or v >= length, after selectedIndex = v no
\* child is selected, whatever was selected before, and selectedIndex reads
\* -1.
C5_OutOfRangeClears ==
    (last.op = "selectedIndex" /\ (last.value < 0 \/ last.value >= length)) =>
        /\ Selected = {}
        /\ selectedIndex(marked) = -1
        /\ selectedChildren(marked) = << >>

C5_Witness ==
    /\ last.op = "selectedIndex"
    /\ length = 3
    /\ last.value = 5
    /\ SelectedBefore # {}
    /\ Selected = {}

C7_ProgrammaticSilent ==
    /\ last.op \in {"selectedIndex", "selectedChild", "addMultiple", "removeMultiple"}
          => (Dispatched = << >> /\ changeCount = 0 /\ inputCount = 0)
    /\ Dispatched # << >> => last.op \in {"keydown", "pointerdown"}

C7_Witness ==
    /\ last.op \in {"selectedIndex", "selectedChild", "removeMultiple"}
    /\ Selected # SelectedBefore
    /\ Dispatched = << >>

\* C8: a key press or pointer press that changes the set of selected children
\* dispatches exactly one change and one input event, change first, and never
\* more than that pair; the numbers of change and input events are equal in
\* every reachable state.
C8_OnePairPerAction ==
    /\ (last.op \in {"keydown", "pointerdown"} /\ Selected # SelectedBefore)
          => Dispatched = << "change", "input" >>
    /\ changeCount = inputCount

\* C9: a key press or pointer press after which the set of selected children
\* is what it was before dispatches no change and no input event, on a
\* control with any number of children, zero included.
C9_NoChangeNoEvent ==
    (last.op \in {"keydown", "pointerdown"} /\ Selected = SelectedBefore)
        => Dispatched = << >>

\* C10: ArrowRight / ArrowDown with selectedIndex = s: when s < length - 1
\* the selection becomes exactly {s + 1} and one change and one input are
\* dispatched; when s = length - 1 nothing changes and nothing is dispatched.
\* selectedIndex never exceeds length - 1.
C10_ForwardArrow ==
    /\ (last.op = "keydown" /\ last.key \in {"ArrowRight", "ArrowDown"}) =>
          LET s == selectedIndex(before.marked)
          IN  IF s < length - 1
              THEN /\ Selected = {s + 1}
                   /\ Dispatched = << "change", "input" >>
              ELSE /\ marked = before.marked
                   /\ Dispatched = << >>
    /\ selectedIndex(marked) <= length - 1

\* C11 as claimed: ArrowLeft / ArrowUp on a control with at least one child
\* and selectedIndex = s moves the selection to max(s - 1, 0): from s = -1 to
\* index 0, from s = 0 nowhere and without notification.
C11_BackwardArrow ==
    (last.op = "keydown" /\ last.key \in {"ArrowLeft", "ArrowUp"} /\ length >= 1) =>
        LET s == selectedIndex(before.marked)
        IN  /\ selectedIndex(marked) = Max(s - 1, 0)
            /\ (s = 0 => (marked = before.marked /\ Dispatched = << >>))

\* C12: PageUp and PageDown pressed while nothing is selected change nothing:
\* the selection stays empty, no scroll is requested and no change or input
\* is dispatched, whatever the number of children.
C12_PageKeysNeedSelection ==
    (last.op = "keydown" /\ last.key \in {"PageUp", "PageDown"}
        /\ selectedIndex(before.marked) = -1) =>
        /\ marked = before.marked
        /\ Selected = {}
        /\ log = << >>

C12_Witness ==
    /\ last.op = "keydown"
    /\ last.key = "PageDown"
    /\ length = MaxChildren
    /\ selectedIndex(before.marked) = -1
    /\ defaultPrevented
    /\ log = << >>

\* A rectangle moved by (dx, dy), and whether rectangle b sticks out of
\* rectangle w anywhere (edges that touch do not stick out).
Translated(r, dx, dy) == DOMRect(r.x + dx, r.y + dy, r.width, r.height)
SticksOut(w, b) ==
    \/ Left(b) < Left(w)
    \/ Right(b) > Right(w)
    \/ Top(b) < Top(w)
    \/ Bottom(b) > Bottom(w)
MaxOf(S) == CHOOSE x \in S : \A y \in S : x >= y

\* The layout of the worked example: the control at [0,0]-[100,100], the
\* selected child at [10,10]-[20,20], then [30,30]-[40,40] and
\* [150,150]-[160,160].
ExampleLayout ==
    /\ length = 3
    /\ containerBounds = DOMRect(0, 0, 10, 10)
    /\ childBounds[0] = DOMRect(1, 1, 1, 1)
    /\ childBounds[1] = DOMRect(3, 3, 1, 1)
    /\ childBounds[2] = DOMRect(15, 15, 1, 1)

\* C13: the forward page scan.  With selectedIndex = s >= 0 and W the
\* control's rectangle moved by (ref.left - container.left, ref.top -
\* container.top), ref being child s, the result is the smallest c with
\* s < c < length whose rectangle is not contained in W (edges included), or
\* length - 1 when there is none; it is -1 when s = -1; it is never less than
\* s; on the example layout with child 0 selected it is 2.
C13_NextPageBoundary ==
    LET s == selectedIndex(marked)
        result == getNextNonvisibleChildIndex(marked)
    IN  /\ s = -1 => result = -1
        /\ s >= 0 =>
             LET ref == childBounds[s]
                 W == Translated(containerBounds,
                                 Left(ref) - Left(containerBounds),
                                 Top(ref) - Top(containerBounds))
                 escaping == { c \in Indices : c > s /\ SticksOut(W, childBounds[c]) }
             IN  result = (IF escaping = {} THEN length - 1 ELSE MinOf(escaping))
        /\ result >= s
        /\ (ExampleLayout /\ s = 0) => result = 2

C13_Witness ==
    /\ ExampleLayout
    /\ last.op = "keydown"
    /\ last.key = "PageDown"
    /\ SelectedBefore = {0}
    /\ Selected = {2}

\* C14: the backward page scan.  With selectedIndex = s >= 0 and W the
\* control's rectangle moved back by (container.right - ref.right,
\* container.bottom - ref.bottom), so that the bottom-right corners of W and
\* of child s coincide, the result is the largest c with 0 <= c < s whose
\* rectangle is not contained in W, or 0 when there is none; it is -1 when
\* s = -1; it is never greater than s.
C14_PreviousPageBoundary ==
    LET s == selectedIndex(marked)
        result == getPreviousNonvisibleChildIndex(marked)
    IN  /\ s = -1 => result = -1
        /\ s >= 0 =>
             LET ref == childBounds[s]
                 W == Translated(containerBounds,
                                 0 - (Right(containerBounds) - Right(ref)),
                                 0 - (Bottom(containerBounds) - Bottom(ref)))
                 escaping == { c \in Indices : c < s /\ SticksOut(W, childBounds[c]) }
             IN  /\ Right(W) = Right(ref)
                 /\ Bottom(W) = Bottom(ref)
                 /\ result = (IF escaping = {} THEN 0 ELSE MaxOf(escaping))
        /\ result <= s

\* PageUp from the last of three children went to the middle one: the first
\* two both stick out of the window, the nearer one is taken.
C14_Witness ==
    /\ length = 3
    /\ last.op = "keydown"
    /\ last.key = "PageUp"
    /\ SelectedBefore = {2}
    /\ Selected = {1}
    /\ SticksOut(Translated(containerBounds,
                            0 - (Right(containerBounds) - Right(childBounds[2])),
                            0 - (Bottom(containerBounds) - Bottom(childBounds[2]))),
                 childBounds[0])

\* A pointer press that the control handles, on a direct child.
PressedChild ==
    /\ last.op = "pointerdown"
    /\ ~last.prevented
    /\ last.target.depth = 1

\* The press is an additive gesture: shift held in multi-selection mode.
Additive == allowMultipeSelections /\ last.shiftKey

\* C15: a pointer press without shift on a direct child that is the only
\* selected child leaves the selection as it is and dispatches no change and
\* no input event, in single- and in multi-selection mode.
C15_RepressSoleSelection ==
    (PressedChild /\ ~last.shiftKey /\ SelectedBefore = {last.target.idx}) =>
        /\ marked = before.marked
        /\ Selected = {last.target.idx}
        /\ Dispatched = << >>

C15_Witness ==
    /\ PressedChild
    /\ ~last.shiftKey
    /\ allowMultipeSelections
    /\ length = MaxChildren
    /\ SelectedBefore = {last.target.idx}
    /\ Selected = SelectedBefore

\* C16: a pointer press that is not additive (no shift, or multi-selection
\* mode disabled) on a direct child c that is not the sole selection leaves
\* exactly {c} selected and dispatches one change and one input event, also
\* when c is one of several selected children.
C16_ExclusivePress ==
    (PressedChild /\ ~Additive /\ SelectedBefore # {last.target.idx}) =>
        /\ Selected = {last.target.idx}
        /\ Dispatched = << "change", "input" >>

\* C17: in multi-selection mode a shift-press on a direct child c toggles c
\* and nothing else, and dispatches exactly one change and one input event
\* whether c was selected or not; with multi-selection mode disabled a
\* shift-press does what the same press without shift does.
C17_AdditivePress ==
    PressedChild =>
        LET c == last.target.idx
            exclusive == handlePointerDown(Dom(before.marked, << >>, FALSE),
                                           last.target, FALSE, FALSE)
        IN  /\ Additive =>
                /\ Selected \ {c} = SelectedBefore \ {c}
                /\ (c \in Selected) = (c \notin SelectedBefore)
                /\ marked \ {last.target} = before.marked \ {last.target}
                /\ Dispatched = << "change", "input" >>
            /\ (last.shiftKey /\ ~allowMultipeSelections) =>
                /\ marked = exclusive.marked
                /\ log = exclusive.log

\* A shift-press in multi-selection mode took a selected child out of a
\* selection of several.
C17_Witness ==
    /\ PressedChild
    /\ Additive
    /\ last.target.idx \in SelectedBefore
    /\ last.target.idx \notin Selected
    /\ Selected # {}
    /\ Dispatched = << "change", "input" >>

\* C18: a press on a descendant of the control at any depth acts on the
\* direct child that contains it: it does what the press on that child does,
\* and the selection marker is only ever on direct children of the control.
C18_ResolvesToDirectChild ==
    /\ \A e \in marked : e.depth = 1
    /\ (last.op = "pointerdown" /\ last.target.depth >= 1) =>
          LET onChild == handlePointerDown(Dom(before.marked, << >>, FALSE),
                                           Child(last.target.idx),
                                           last.shiftKey, last.prevented)
          IN  /\ marked = onChild.marked
              /\ log = onChild.log

\* C19: at most one keyHandler is attached to the document, one is attached
\* exactly while the control holds focus, none after focus is lost; one key
\* press dispatches at most one change/input pair.
C19_OneListenerWhileFocused ==
    /\ keydownListeners <= 1
    /\ (keydownListeners = 1) = focused
    /\ last.op = "keydown" => Len(Dispatched) <= 2

\* The index a navigation key aims at from selectedIndex = s.
KeyTarget(key, s) ==
    CASE key = "Home" -> 0
      [] key = "End" -> length - 1
      [] key \in {"ArrowRight", "ArrowDown"} -> Min(s + 1, length - 1)
      [] key \in {"ArrowLeft", "ArrowUp"} -> Max(s - 1, 0)
      [] key = "PageDown" -> getNextNonvisibleChildIndex(before.marked)
      [] key = "PageUp" -> getPreviousNonvisibleChildIndex(before.marked)

\* C20: after a Home, End, arrow or page key on a control whose selectedIndex
\* is s >= 0, exactly one child is selected, the one the key aims at, also in
\* multi-selection mode with several children selected before the key.
C20_KeyboardExclusive ==
    (last.op = "keydown" /\ last.key # "Enter" /\ selectedIndex(before.marked) >= 0) =>
        Selected = {KeyTarget(last.key, selectedIndex(before.marked))}

\* The keys the control claims.
ClaimedKeys == {"Home", "End", "PageUp", "PageDown",
                "ArrowRight", "ArrowDown", "ArrowLeft", "ArrowUp"}

\* C21: every press of Home, End, PageUp, PageDown or an arrow key has its
\* default action suppressed, also when the press changes nothing; a press of
\* any other key is not suppressed, leaves the markers and the mode as they
\* were and dispatches nothing.
C21_KeyClaiming ==
    last.op = "keydown" =>
        IF last.key \in ClaimedKeys
        THEN defaultPrevented
        ELSE /\ ~defaultPrevented
             /\ marked = before.marked
             /\ allowMultipeSelections = before.allowMultipeSelections
             /\ log = << >>

\* A clamped arrow: ArrowDown on the last child changed nothing and was
\* claimed all the same.
C21_Witness ==
    /\ last.op = "keydown"
    /\ last.key = "ArrowDown"
    /\ length = MaxChildren
    /\ selectedIndex(before.marked) = length - 1
    /\ marked = before.marked
    /\ log = << >>
    /\ defaultPrevented

\* C22: a pointer press on the control itself, and a pointer press whose
\* default action another handler has already suppressed, leave the selected
\* children as they were and dispatch no change and no input event, in both
\* modes, with or without shift.
C22_IgnoredPress ==
    (last.op = "pointerdown" /\ (last.target = Host \/ last.prevented)) =>
        /\ marked = before.marked
        /\ Selected = SelectedBefore
        /\ Dispatched = << >>
        /\ log = << >>

\* An already claimed shift-press in multi-selection mode on a direct child
\* that is not selected, while another child is: nothing happened.
C22_Witness ==
    /\ last.op = "pointerdown"
    /\ last.prevented
    /\ last.shiftKey
    /\ allowMultipeSelections
    /\ last.target.depth = 1
    /\ last.target.idx \notin SelectedBefore
    /\ SelectedBefore # {}
    /\ Selected = SelectedBefore
    /\ log = << >>

\* The selection an observer saw at the log entry before position k, the
\* selection before the operation when there is none.
SeenBefore(k) ==
    LET earlier == { j \in 1 .. (k - 1) : IsEvent(log[j]) }
    IN  IF earlier = {} THEN SelectedBefore ELSE log[MaxOf(earlier)].seen

\* C23: when a key press or pointer press changes the selection, every change
\* event is dispatched after the markers are updated: the listener sees the
\* newly committed selection (not the one before it, not a cleared one in
\* between), the input event that follows sees the same, and what the last
\* event showed is the selection the operation ends with; for a key press the
\* scroll request for the newly selected child comes right before the change
\* event.
C23_CommitBeforeNotify ==
    (last.op \in {"keydown", "pointerdown"} /\ Selected # SelectedBefore) =>
        /\ log # << >>
        /\ log[Len(log)].seen = Selected
        /\ \A k \in DOMAIN log :
              log[k].type = "change" =>
                 /\ k < Len(log)
                 /\ log[k + 1].type = "input"
                 /\ log[k + 1].seen = log[k].seen
                 /\ log[k].seen # SeenBefore(k)
                 /\ last.op = "keydown" =>
                       /\ k > 1
                       /\ log[k - 1].type = "scroll"
                       /\ log[k - 1].seen = log[k].seen
                       /\ Cardinality(log[k].seen) = 1

\* ArrowDown moved a selection of several children in multi-selection mode
\* to one child; scroll, change and input all saw that child selected.
C23_Witness ==
    /\ last.op = "keydown"
    /\ last.key = "ArrowDown"
    /\ allowMultipeSelections
    /\ Cardinality(SelectedBefore) = 2
    /\ Cardinality(Selected) = 1
    /\ Len(log) = 3
    /\ log[1].type = "scroll"
    /\ log[2] = [type |-> "change", seen |-> Selected]
    /\ log[3] = [type |-> "input", seen |-> Selected]

====
